---------------------------- MODULE Spec2Model ----------------------------
(***************************************************************************)
(* Variant-chess GUI (src/src/main.rs): the match lifecycle, the reward    *)
(* generator and the modifier effects applied around a move, as a state    *)
(* machine over AppState.  The base chess engine (crate eliasfl_chess) is  *)
(* an external collaborator: it is modelled at its interface (board map,   *)
(* active_color, make_move, get_possible_moves, get_game_state,            *)
(* set_promotion) by ordinary piece movement without castling and en       *)
(* passant; whether a check is a mate is the engine's verdict and is drawn *)
(* nondeterministically whenever the side to move is in check.             *)
(*                                                                         *)
(* The handlers are operators from a state record to the states they can   *)
(* leave; the numbers the seeded generator returns are an input of the     *)
(* acknowledgement, like the pixel of a click.  The specifications differ  *)
(* in the pixels clicked and the numbers rolled:                           *)
(*   Spec           one round of 1.e4 f6 2.Qh5+ g6 3.Qxg6+ and its reward  *)
(*   SpecTwoRounds  two such rounds and their rewards                      *)
(*   SpecHill       a round won by a king on the hill, and the next round  *)
(*   SpecHeld       rounds in which a side holds Atomic for its own knight *)
(*   SpecGen        generate_mod applied to drawn arguments                *)
(***************************************************************************)
EXTENDS Integers, Sequences, FiniteSets, TLC

VARIABLES
    board,                \* Game.board: HashMap<Position, Piece>
    active_color,         \* Game.active_color
    mate,                 \* engine verdict: the current check is a mate
    promotion,            \* Game.promotion, per colour
    selected_pos,         \* AppState.selected_pos
    highlighted_pos,      \* AppState.highlighted_pos (only membership is read)
    taken_black_pieces,   \* AppState.taken_black_pieces
    taken_white_pieces,   \* AppState.taken_white_pieces
    white_mods,           \* AppState.white_mods
    black_mods,           \* AppState.black_mods
    triple_check_counter, \* AppState.triple_check_counter
    wins,                 \* AppState.wins
    screen,               \* AppState.screen
    cur_winner,           \* AppState.cur_winner: "None", "White" or "Black"
    random_mods,          \* AppState.random_mods
    seed,                 \* static mut seed
    status,               \* "running", "panicked" (process aborted) or
                          \* "hung" (a handler that never returns)
    call,                 \* the arguments of a call of generate_mod
    returned              \* what that call returned, <<>> before it returns

vars == <<board, active_color, mate, promotion, selected_pos, highlighted_pos,
          taken_black_pieces, taken_white_pieces, white_mods, black_mods,
          triple_check_counter, wins, screen, cur_winner, random_mods, seed,
          status, call, returned>>

----------------------------------------------------------------------------
(* Bounds of the model *)

\* idle ticks and acknowledgements explored (seed is a u64 that only grows)
MaxSeed == 2

\* captured pieces explored, both piles together (the piles only grow, but
\* for a re-drop)
MaxTaken == 6

----------------------------------------------------------------------------
(* Program constants *)

GRID_SIZE == 8
GRID_CELL_SIZE == 45
SCREEN_W == GRID_SIZE * GRID_CELL_SIZE * 3
SCREEN_H == (GRID_SIZE * GRID_CELL_SIZE * 3) \div 2

White == "White"
Black == "Black"
Colours == {White, Black}
NoColour == "None"

PieceKinds == {"King", "Queen", "Rook", "Bishop", "Knight", "Pawn"}

Piece(kind, col) == <<kind, col>>
kind_of(p) == p[1]

\* Gets::colour
colour(p) == p[2]

\* Gets::type_as_colour
type_as_colour(p, col) == <<p[1], col>>

\* the colour that is not col (the not_col / cur_loser computations)
Opposite(col) == IF col = White THEN Black ELSE White

\* Mods: a tagged value; five variants carry a piece
CrazyHouse(p) == <<"CrazyHouse", p>>
Atomic(p) == <<"Atomic", p>>
Sniper(p) == <<"Sniper", p>>
KingOfTheHill == <<"KingOfTheHill", <<"None", "None">>>>
Extinction(p) == <<"Extinction", p>>
TripleCheck(p) == <<"TripleCheck", p>>

\* Mods::get_piece
get_piece(m, col) ==
    CASE m[1] = "CrazyHouse" -> type_as_colour(m[2], Opposite(col))
      [] m[1] = "Atomic" -> type_as_colour(m[2], col)
      [] m[1] = "Sniper" -> type_as_colour(m[2], col)
      [] m[1] = "KingOfTheHill" -> Piece("King", col)
      [] m[1] = "Extinction" -> type_as_colour(m[2], Opposite(col))
      [] OTHER -> type_as_colour(m[2], col)

----------------------------------------------------------------------------
(* The base engine, at its interface *)

Position(file, rank) == <<file, rank>>

Squares == {Position(f, r) : f \in 1..8, r \in 1..8}

contains_key(b, pos) == pos \in DOMAIN b

\* HashMap::insert and HashMap::remove on the board map
board_insert(b, pos, p) ==
    [s \in (DOMAIN b) \cup {pos} |-> IF s = pos THEN p ELSE b[s]]

board_remove(b, pos) == [s \in (DOMAIN b) \ {pos} |-> b[s]]

\* values().any(|x| x == p)
any_piece(b, p) == \E s \in DOMAIN b : b[s] = p

BackRank ==
    <<"Rook", "Knight", "Bishop", "Queen", "King", "Bishop", "Knight", "Rook">>

\* Game::new(): the standard initial position
InitialBoard ==
    [pos \in {Position(f, r) : f \in 1..8, r \in {1, 2, 7, 8}} |->
        CASE pos[2] = 1 -> Piece(BackRank[pos[1]], White)
          [] pos[2] = 2 -> Piece("Pawn", White)
          [] pos[2] = 7 -> Piece("Pawn", Black)
          [] OTHER -> Piece(BackRank[pos[1]], Black)]

RookDirs == {<<1, 0>>, <<-1, 0>>, <<0, 1>>, <<0, -1>>}
BishopDirs == {<<1, 1>>, <<1, -1>>, <<-1, 1>>, <<-1, -1>>}
KnightSteps == {<<1, 2>>, <<2, 1>>, <<-1, 2>>, <<-2, 1>>,
                <<1, -2>>, <<2, -1>>, <<-1, -2>>, <<-2, -1>>}

Shift(pos, d, k) == Position(pos[1] + k * d[1], pos[2] + k * d[2])

\* squares a slider reaches from pos along dirs: empty squares up to and
\* including the first occupied one (whatever stands on it)
Rays(b, pos, dirs) ==
    UNION {{Shift(pos, d, k) : k \in {n \in 1..7 :
                /\ Shift(pos, d, n) \in Squares
                /\ \A j \in 1..(n - 1) : ~contains_key(b, Shift(pos, d, j))}}
           : d \in dirs}

Steps(pos, ds) == {Shift(pos, d, 1) : d \in ds} \cap Squares

PawnDir(col) == IF col = White THEN 1 ELSE -1
PawnHome(col) == IF col = White THEN 2 ELSE 7

\* squares the piece on pos attacks
Attacks(b, pos) ==
    LET p == b[pos] IN
    CASE kind_of(p) = "Pawn" ->
            Steps(pos, {<<1, PawnDir(colour(p))>>, <<-1, PawnDir(colour(p))>>})
      [] kind_of(p) = "Knight" -> Steps(pos, KnightSteps)
      [] kind_of(p) = "King" -> Steps(pos, RookDirs \cup BishopDirs)
      [] kind_of(p) = "Rook" -> Rays(b, pos, RookDirs)
      [] kind_of(p) = "Bishop" -> Rays(b, pos, BishopDirs)
      [] OTHER -> Rays(b, pos, RookDirs \cup BishopDirs)

PawnPushes(b, pos) ==
    LET col == colour(b[pos])
        one == Shift(pos, <<0, PawnDir(col)>>, 1)
        two == Shift(pos, <<0, PawnDir(col)>>, 2)
    IN  IF one \notin Squares \/ contains_key(b, one) THEN {}
        ELSE IF pos[2] = PawnHome(col) /\ ~contains_key(b, two)
             THEN {one, two} ELSE {one}

\* destinations by piece movement, before the king's safety is looked at
PseudoMoves(b, pos) ==
    LET p == b[pos] IN
    IF kind_of(p) = "Pawn"
    THEN PawnPushes(b, pos) \cup
         {t \in Attacks(b, pos) :
             contains_key(b, t) /\ colour(b[t]) # colour(p)}
    ELSE {t \in Attacks(b, pos) :
             ~contains_key(b, t) \/ colour(b[t]) # colour(p)}

\* a piece of colour by, of one of kinds, is the first piece met from target
\* along one of dirs
SeenAlong(b, target, by, dirs, kinds) ==
    \E d \in dirs : \E k \in 1..7 :
        /\ contains_key(b, Shift(target, d, k))
        /\ colour(b[Shift(target, d, k)]) = by
        /\ kind_of(b[Shift(target, d, k)]) \in kinds
        /\ \A j \in 1..(k - 1) : ~contains_key(b, Shift(target, d, j))

\* a piece of colour by, of kind, stands one of steps away from target
StandsAt(b, target, by, steps, kind) ==
    \E d \in steps : /\ contains_key(b, Shift(target, d, 1))
                     /\ b[Shift(target, d, 1)] = Piece(kind, by)

\* some piece of colour by attacks target
Attacked(b, target, by) ==
    \/ SeenAlong(b, target, by, RookDirs, {"Rook", "Queen"})
    \/ SeenAlong(b, target, by, BishopDirs, {"Bishop", "Queen"})
    \/ StandsAt(b, target, by, KnightSteps, "Knight")
    \/ StandsAt(b, target, by, RookDirs \cup BishopDirs, "King")
    \/ StandsAt(b, target, by, {<<1, -PawnDir(by)>>, <<-1, -PawnDir(by)>>}, "Pawn")

InCheck(b, col) ==
    \E k \in DOMAIN b : b[k] = Piece("King", col) /\ Attacked(b, k, Opposite(col))

\* the board after the piece on from has gone to to (a pawn reaching the last
\* rank is replaced by promo)
MovePiece(b, from, to, promo) ==
    LET p == b[from]
        q == IF kind_of(p) = "Pawn" /\ to[2] \in {1, 8}
             THEN Piece(promo, colour(p)) ELSE p
    IN  board_insert(board_remove(b, from), to, q)

\* Game::get_possible_moves: the legal destinations of the piece on pos
get_possible_moves(b, pos) ==
    {t \in PseudoMoves(b, pos) :
        ~InCheck(MovePiece(b, pos, t, "Queen"), colour(b[pos]))}


\* the engine's verdict on the position: a mated side has no move left
get_game_state(s) ==
    IF InCheck(s.board, s.active_color)
    THEN (IF s.mate THEN "CheckMate" ELSE "Check")
    ELSE "Normal"

\* Game::get_possible_moves as the GUI calls it (line 722), for a piece of
\* either colour
possible_moves(s, pos) ==
    IF colour(s.board[pos]) = s.active_color /\ get_game_state(s) = "CheckMate"
    THEN {}
    ELSE get_possible_moves(s.board, pos)

\* Game::make_move: [ok, s]; on success the piece has moved, the turn has
\* passed and the engine has judged the new position (verdict: the mate
\* answer it gives if the new side to move is in check)
make_move(s, from, to, verdict) ==
    IF /\ contains_key(s.board, from)
       /\ colour(s.board[from]) = s.active_color
       /\ to \in possible_moves(s, from)
    THEN LET b == MovePiece(s.board, from, to, s.promotion[s.active_color])
             next == Opposite(s.active_color)
         IN  [ok |-> TRUE,
              s |-> [s EXCEPT !.board = b, !.active_color = next,
                              !.mate = verdict /\ InCheck(b, next)]]
    ELSE [ok |-> FALSE, s |-> s]

\* Piece::valid_destinations (line 661): where the piece could go from pos by
\* its movement alone, on an otherwise empty board
valid_destinations(p, pos) ==
    LET alone == [q \in {pos} |-> p] IN
    IF kind_of(p) = "Pawn"
    THEN PawnPushes(alone, pos) \cup Attacks(alone, pos)
    ELSE Attacks(alone, pos)

DefaultPromotion == [c \in Colours |-> "Queen"]

\* self.board = Game::new()
new_game(s) ==
    [s EXCEPT !.board = InitialBoard, !.active_color = White,
              !.mate = FALSE, !.promotion = DefaultPromotion]

\* Game::set_promotion, for the side to move
set_promotion(s, kind) ==
    [s EXCEPT !.promotion = [@ EXCEPT ![s.active_color] = kind]]

----------------------------------------------------------------------------
(* AppState *)

\* the program state as one value, as the handlers see it through &mut self
self ==
    [board |-> board, active_color |-> active_color, mate |-> mate,
     promotion |-> promotion, selected_pos |-> selected_pos,
     highlighted_pos |-> highlighted_pos,
     taken_black_pieces |-> taken_black_pieces,
     taken_white_pieces |-> taken_white_pieces,
     white_mods |-> white_mods, black_mods |-> black_mods,
     triple_check_counter |-> triple_check_counter, wins |-> wins,
     screen |-> screen, cur_winner |-> cur_winner,
     random_mods |-> random_mods, seed |-> seed, status |-> status]

\* the handler has left the program in state s
Becomes(s) ==
    /\ board' = s.board
    /\ active_color' = s.active_color
    /\ mate' = s.mate
    /\ promotion' = s.promotion
    /\ selected_pos' = s.selected_pos
    /\ highlighted_pos' = s.highlighted_pos
    /\ taken_black_pieces' = s.taken_black_pieces
    /\ taken_white_pieces' = s.taken_white_pieces
    /\ white_mods' = s.white_mods
    /\ black_mods' = s.black_mods
    /\ triple_check_counter' = s.triple_check_counter
    /\ wins' = s.wins
    /\ screen' = s.screen
    /\ cur_winner' = s.cur_winner
    /\ random_mods' = s.random_mods
    /\ seed' = s.seed
    /\ status' = s.status
    /\ UNCHANGED <<call, returned>>

\* the program is in state s
Is(s) ==
    /\ board = s.board
    /\ active_color = s.active_color
    /\ mate = s.mate
    /\ promotion = s.promotion
    /\ selected_pos = s.selected_pos
    /\ highlighted_pos = s.highlighted_pos
    /\ taken_black_pieces = s.taken_black_pieces
    /\ taken_white_pieces = s.taken_white_pieces
    /\ white_mods = s.white_mods
    /\ black_mods = s.black_mods
    /\ triple_check_counter = s.triple_check_counter
    /\ wins = s.wins
    /\ screen = s.screen
    /\ cur_winner = s.cur_winner
    /\ random_mods = s.random_mods
    /\ seed = s.seed
    /\ status = s.status

\* AppState::new, with the static seed at 0
new ==
    [board |-> InitialBoard, active_color |-> White, mate |-> FALSE,
     promotion |-> DefaultPromotion, selected_pos |-> <<0, 0>>,
     highlighted_pos |-> {},
     taken_black_pieces |-> <<>>, taken_white_pieces |-> <<>>,
     white_mods |-> {}, black_mods |-> {},
     triple_check_counter |-> <<0, 0>>, wins |-> <<0, 0>>,
     screen |-> "GameScreen", cur_winner |-> NoColour,
     random_mods |-> <<>>, seed |-> 0, status |-> "running"]

\* main: the event loop starts on AppState::new
Init ==
    /\ Is(new)
    /\ call = <<>>
    /\ returned = <<>>

\* a panic (unwrap on None, a missing map key, an index out of bounds, panic!())
\* aborts the process
panic(s) == [s EXCEPT !.status = "panicked"]

\* AppState::end_game
end_game(s, winner) ==
    [s EXCEPT !.screen = "ScoreScreen", !.cur_winner = winner]

\* a faulty idle tick: the round goes to the side that is mated
update_state_to_mover(s) ==
    LET s1 == IF get_game_state(s) = "CheckMate" /\ s.screen = "GameScreen"
              THEN end_game(s, s.active_color)
              ELSE s
    IN  [s1 EXCEPT !.seed = @ + 1]

\* a faulty idle tick: on the score screen the verdict is given again, to the
\* colour that is not to move
update_state_renews_verdict(s) ==
    LET s1 == IF \/ get_game_state(s) = "CheckMate" /\ s.screen = "GameScreen"
                 \/ s.screen = "ScoreScreen"
              THEN (IF s.active_color = White
                    THEN end_game(s, Black) ELSE end_game(s, White))
              ELSE s
    IN  [s1 EXCEPT !.seed = @ + 1]

\* EventHandler::update: the idle tick
update_state(s) ==
    LET s1 == IF get_game_state(s) = "CheckMate" /\ s.screen = "GameScreen"
              THEN (IF s.active_color = White
                    THEN end_game(s, Black) ELSE end_game(s, White))
              ELSE s
    IN  [s1 EXCEPT !.seed = @ + 1]

----------------------------------------------------------------------------
(* The reward generator *)

\* a faulty generate_mod: the first band of the piece table ends one early
generate_mod_shifted(col, rng1, rng2) ==
    LET r1 == rng1 % 100
        piece == IF r1 < 33 THEN Piece("Pawn", Black)
                 ELSE IF r1 <= 53 THEN Piece("Bishop", Black)
                 ELSE IF r1 <= 73 THEN Piece("Knight", Black)
                 ELSE IF r1 <= 89 THEN Piece("Rook", Black)
                 ELSE Piece("Queen", Black)
        not_col == IF col = Black THEN White ELSE Black
        r2 == rng2 % 100
    IN  IF r2 <= 9 THEN KingOfTheHill
        ELSE IF r2 <= 27 THEN Atomic(type_as_colour(piece, col))
        ELSE IF r2 <= 45 THEN CrazyHouse(type_as_colour(piece, not_col))
        ELSE IF r2 <= 63 THEN Extinction(type_as_colour(piece, not_col))
        ELSE IF r2 <= 81 THEN Sniper(type_as_colour(piece, col))
        ELSE TripleCheck(type_as_colour(piece, col))

\* generate_mod
generate_mod(col, rng1, rng2) ==
    LET r1 == rng1 % 100
        piece == IF r1 <= 33 THEN Piece("Pawn", Black)
                 ELSE IF r1 <= 53 THEN Piece("Bishop", Black)
                 ELSE IF r1 <= 73 THEN Piece("Knight", Black)
                 ELSE IF r1 <= 89 THEN Piece("Rook", Black)
                 ELSE Piece("Queen", Black)
        not_col == IF col = Black THEN White ELSE Black
        r2 == rng2 % 100
    IN  IF r2 <= 9 THEN KingOfTheHill
        ELSE IF r2 <= 27 THEN Atomic(type_as_colour(piece, col))
        ELSE IF r2 <= 45 THEN CrazyHouse(type_as_colour(piece, not_col))
        ELSE IF r2 <= 63 THEN Extinction(type_as_colour(piece, not_col))
        ELSE IF r2 <= 81 THEN Sniper(type_as_colour(piece, col))
        ELSE TripleCheck(type_as_colour(piece, col))

\* the modifiers generate_mod(col, rng.gen(), rng.gen()) can return when the
\* generator's two numbers are one of the pairs rolls
Generable(col, rolls) == {generate_mod(col, r[1], r[2]) : r \in rolls}

\* a faulty draw: the third candidate is never pushed
draw_candidates_pair(s, rolls) ==
    LET winner == s.cur_winner
        cur_loser == IF winner = White THEN Black ELSE White
        held == IF cur_loser = White THEN s.white_mods ELSE s.black_mods
        free == Generable(winner, rolls) \ held
        s1 == [s EXCEPT !.seed = @ + 1, !.screen = "ModScreen"]
    IN  IF free = {}
        THEN {[s1 EXCEPT !.status = "hung"]}
        ELSE {[s1 EXCEPT !.random_mods = @ \o <<mod_1, mod_2>>] :
                 mod_1 \in free, mod_2 \in free}

\* a faulty draw: the candidates are not redrawn while the loser holds them
draw_candidates_unfiltered(s, rolls) ==
    LET free == Generable(s.cur_winner, rolls)
        s1 == [s EXCEPT !.seed = @ + 1, !.screen = "ModScreen"]
    IN  {[s1 EXCEPT !.random_mods = @ \o <<mod_1, mod_2, mod_3>>] :
            mod_1 \in free, mod_2 \in free, mod_3 \in free}

\* lines 504-535: the candidate draw on acknowledging a won round.  Each
\* candidate is redrawn while the loser's set contains it, so it ends as a
\* generable modifier outside that set; when the set holds every modifier
\* the generator can return, the loop never ends.
draw_candidates(s, rolls) ==
    LET winner == s.cur_winner
        cur_loser == IF winner = White THEN Black ELSE White
        held == IF cur_loser = White THEN s.white_mods ELSE s.black_mods
        free == Generable(winner, rolls) \ held
        s1 == [s EXCEPT !.seed = @ + 1, !.screen = "ModScreen"]
    IN  IF free = {}
        THEN {[s1 EXCEPT !.status = "hung"]}
        ELSE {[s1 EXCEPT !.random_mods = @ \o <<mod_1, mod_2, mod_3>>] :
                 mod_1 \in free, mod_2 \in free, mod_3 \in free}

\* a faulty acknowledgement: without a winner the board is left as it is
score_screen_click_keeps_board(s, rolls) ==
    IF s.cur_winner = NoColour
    THEN {[s EXCEPT !.screen = "GameScreen"]}
    ELSE draw_candidates(s, rolls)

\* lines 498-536: a click on the score screen (the acknowledgement)
score_screen_click(s, rolls) ==
    IF s.cur_winner = NoColour
    THEN {new_game([s EXCEPT !.screen = "GameScreen"])}
    ELSE draw_candidates(s, rolls)

\* a faulty selection: the candidate goes to the winner
select_mod_to_winner(s, i) ==
    IF s.cur_winner = NoColour \/ i > Len(s.random_mods)
    THEN panic(s)
    ELSE LET s1 == IF s.cur_winner = White
                   THEN [s EXCEPT !.white_mods = @ \cup {s.random_mods[i]}]
                   ELSE [s EXCEPT !.black_mods = @ \cup {s.random_mods[i]}]
         IN  new_game([s1 EXCEPT !.screen = "GameScreen",
                                 !.random_mods = <<>>])

\* a faulty selection: the candidate replaces what the loser held
select_mod_replaces(s, i) ==
    IF s.cur_winner = NoColour \/ i > Len(s.random_mods)
    THEN panic(s)
    ELSE LET s1 == IF s.cur_winner = White
                   THEN [s EXCEPT !.black_mods = {s.random_mods[i]}]
                   ELSE [s EXCEPT !.white_mods = {s.random_mods[i]}]
         IN  new_game([s1 EXCEPT !.screen = "GameScreen",
                                 !.random_mods = <<>>])

\* a faulty selection: the candidates stay on the list
select_mod_keeps_candidates(s, i) ==
    IF s.cur_winner = NoColour \/ i > Len(s.random_mods)
    THEN panic(s)
    ELSE LET s1 == IF s.cur_winner = White
                   THEN [s EXCEPT !.black_mods = @ \cup {s.random_mods[i]}]
                   ELSE [s EXCEPT !.white_mods = @ \cup {s.random_mods[i]}]
         IN  new_game([s1 EXCEPT !.screen = "GameScreen"])

\* lines 463-471 (and 474-482, 485-493): candidate i is taken
select_mod(s, i) ==
    IF s.cur_winner = NoColour \/ i > Len(s.random_mods)
    THEN panic(s)
    ELSE LET s1 == IF s.cur_winner = White
                   THEN [s EXCEPT !.black_mods = @ \cup {s.random_mods[i]}]
                   ELSE [s EXCEPT !.white_mods = @ \cup {s.random_mods[i]}]
         IN  new_game([s1 EXCEPT !.screen = "GameScreen",
                                 !.random_mods = <<>>])

\* the three candidate boxes, in half pixels (lines 460, 462, 473, 484)
BoxHeight2 == (2 * (SCREEN_H - 2 * GRID_CELL_SIZE)) \div 3

InBoxes(x) == 2 * x > GRID_CELL_SIZE /\ 2 * x < 2 * SCREEN_W - GRID_CELL_SIZE

InBox1(y) ==
    2 * y > GRID_CELL_SIZE /\ 2 * y < GRID_CELL_SIZE + BoxHeight2

InBox2(y) ==
    /\ 2 * y > GRID_CELL_SIZE + BoxHeight2 + GRID_CELL_SIZE
    /\ 2 * y < (GRID_CELL_SIZE + BoxHeight2) * 2

InBox3(y) ==
    /\ 2 * y > GRID_CELL_SIZE + 2 * BoxHeight2 + 2 * GRID_CELL_SIZE
    /\ 2 * y < (GRID_CELL_SIZE + BoxHeight2) * 3

\* lines 459-497: a click on the reward screen
mod_screen_click(s, x, y) ==
    IF ~InBoxes(x) THEN s
    ELSE IF InBox1(y) THEN select_mod(s, 1)
    ELSE IF InBox2(y) THEN select_mod(s, 2)
    ELSE IF InBox3(y) THEN select_mod(s, 3)
    ELSE s


----------------------------------------------------------------------------
(* A click on the game screen *)

\* f32::ceil of n / d
CeilDiv(n, d) == -((-n) \div d)

\* `as u8` of a float (saturating) and of an isize (wrapping)
FloatAsU8(n) == IF n < 0 THEN 0 ELSE IF n > 255 THEN 255 ELSE n
IntAsU8(n) == n % 256

RemoveAt(seq, i) == SubSeq(seq, 1, i - 1) \o SubSeq(seq, i + 1, Len(seq))

\* lines 547-572: the piece goes to the captured pile of its own colour
push_taken(s, p) ==
    IF colour(p) = Black
    THEN [s EXCEPT !.taken_black_pieces = Append(@, p)]
    ELSE [s EXCEPT !.taken_white_pieces = Append(@, p)]

\* lines 544-573: taking detection; [s, taking_move]
detect_taking(s, from, to) ==
    IF ~contains_key(s.board, to) THEN [s |-> s, taking_move |-> FALSE]
    ELSE IF ~contains_key(s.board, from)
    THEN [s |-> panic(s), taking_move |-> FALSE]
    ELSE IF colour(s.board[from]) = s.active_color
    THEN [s |-> push_taken(s, s.board[to]), taking_move |-> TRUE]
    ELSE [s |-> s, taking_move |-> FALSE]

\* a faulty order: the diagonal neighbours are left out
ExplosionOffsetsCross == <<<<-1, 0>>, <<0, -1>>, <<0, 0>>, <<0, 1>>, <<1, 0>>>>

\* the order of `for x in 0..=2 { for y in 0..=2 {` as offsets from `to`
ExplosionOffsets ==
    <<<<-1, -1>>, <<-1, 0>>, <<-1, 1>>, <<0, -1>>, <<0, 0>>, <<0, 1>>,
      <<1, -1>>, <<1, 0>>, <<1, 1>>>>

\* lines 583-596 (mover Black: the centre is skipped, the pieces go to
\* taken_white_pieces) and 619-631 (mover White: the centre is not skipped,
\* the pieces go to taken_black_pieces)
RECURSIVE explode(_, _, _, _)
explode(s, to, offsets, mover) ==
    IF offsets = <<>> THEN s
    ELSE LET d == Head(offsets)
             sq == Position(FloatAsU8(to[1] + d[1]), FloatAsU8(to[2] + d[2]))
             hit == /\ ~(mover = Black /\ d = <<0, 0>>)
                    /\ contains_key(s.board, sq)
                    /\ kind_of(s.board[sq]) # "Pawn"
             s1 == IF ~hit THEN s
                   ELSE IF mover = Black
                   THEN [s EXCEPT
                           !.taken_white_pieces = Append(@, s.board[sq]),
                           !.board = board_remove(@, sq)]
                   ELSE [s EXCEPT
                           !.taken_black_pieces = Append(@, s.board[sq]),
                           !.board = board_remove(@, sq)]
         IN  explode(s1, to, Tail(offsets), mover)

\* lines 597-603 and 632-638: the king test after the explosion; all three
\* conditions look for the White King
kings_after_explosion(s) ==
    IF ~any_piece(s.board, Piece("King", White))
       /\ ~any_piece(s.board, Piece("King", White))
    THEN end_game(s, NoColour)
    ELSE IF ~any_piece(s.board, Piece("King", White))
    THEN end_game(s, Black)
    ELSE IF ~any_piece(s.board, Piece("King", White))
    THEN end_game(s, White)
    ELSE s

\* lines 582-604 and 618-639: the Atomic step before the commit
atomic_step(s, from, to, mover) ==
    LET mods == IF mover = Black THEN s.black_mods ELSE s.white_mods IN
    IF Atomic(s.board[from]) \in mods
    THEN kings_after_explosion(explode(s, to, ExplosionOffsets, mover))
    ELSE s

\* lines 605-612 and 640-647: the Extinction step
extinction_step(s, from, to, mover, verdict) ==
    LET mods == IF mover = Black THEN s.black_mods ELSE s.white_mods IN
    IF s.status # "running" THEN s
    ELSE IF ~contains_key(s.board, to) THEN panic(s)
    ELSE IF Extinction(s.board[to]) \in mods
    THEN LET theoretical_board == board_remove(s.board, to) IN
         IF any_piece(theoretical_board, s.board[to])
         THEN end_game(make_move(s, from, to, verdict).s, mover)
         ELSE s
    ELSE s

\* a faulty pre-commit: Sniper is looked up for an empty destination as well
pre_commit_sniper_always(s, from, to, verdict) ==
    LET mover == s.active_color
        mods == IF mover = Black THEN s.black_mods ELSE s.white_mods
    IN  IF ~contains_key(s.board, to)
        THEN [s |-> s, sniper |-> Sniper(s.board[from]) \in mods]
        ELSE [s |-> extinction_step(atomic_step(s, from, to, mover),
                                    from, to, mover, verdict),
              sniper |-> Sniper(s.board[from]) \in mods]

\* lines 575-650: what is done before the commit; [s, sniper]
pre_commit(s, from, to, verdict) ==
    IF ~contains_key(s.board, to) THEN [s |-> s, sniper |-> FALSE]
    ELSE LET mover == s.active_color
             mods == IF mover = Black THEN s.black_mods ELSE s.white_mods
         IN  [s |-> extinction_step(atomic_step(s, from, to, mover),
                                    from, to, mover, verdict),
              sniper |-> Sniper(s.board[from]) \in mods]

\* lines 652-655: the Sniper revert
sniper_revert(s, from, to) ==
    IF ~contains_key(s.board, to) THEN panic(s)
    ELSE [s EXCEPT !.board =
              board_remove(board_insert(@, from, s.board[to]), to)]

\* a faulty Triple-Check step: a check counts twice
triple_check_step_by_two(s, to, now) ==
    LET p == s.board[to]
        mods == IF now = White THEN s.black_mods ELSE s.white_mods
        counter == <<s.triple_check_counter[1], s.triple_check_counter[2] + 2>>
    IN  IF /\ TripleCheck(p) \in mods
           /\ get_game_state(s) = "Check"
           /\ \E k \in DOMAIN s.board :
                 /\ s.board[k] = Piece("King", now)
                 /\ k \in valid_destinations(p, to)
        THEN LET s1 == [s EXCEPT !.triple_check_counter = counter] IN
             IF counter[2] >= 3 THEN end_game(s1, Opposite(now)) ELSE s1
        ELSE s

\* a faulty Triple-Check step: the set of the side to move is read, not the
\* mover's
triple_check_step_other_set(s, to, now) ==
    LET p == s.board[to]
        mods == IF now = White THEN s.white_mods ELSE s.black_mods
        counter == <<s.triple_check_counter[1], s.triple_check_counter[2] + 1>>
    IN  IF /\ TripleCheck(p) \in mods
           /\ get_game_state(s) = "Check"
           /\ \E k \in DOMAIN s.board :
                 /\ s.board[k] = Piece("King", now)
                 /\ k \in valid_destinations(p, to)
        THEN LET s1 == [s EXCEPT !.triple_check_counter = counter] IN
             IF counter[2] >= 3 THEN end_game(s1, Opposite(now)) ELSE s1
        ELSE s

\* lines 659-667 and 674-682: Triple-Check bookkeeping; now is the side to
\* move after the commit
triple_check_step(s, to, now) ==
    LET p == s.board[to]
        mods == IF now = White THEN s.black_mods ELSE s.white_mods
        counter == <<s.triple_check_counter[1], s.triple_check_counter[2] + 1>>
    IN  IF /\ TripleCheck(p) \in mods
           /\ get_game_state(s) = "Check"
           /\ \E k \in DOMAIN s.board :
                 /\ s.board[k] = Piece("King", now)
                 /\ k \in valid_destinations(p, to)
        THEN LET s1 == [s EXCEPT !.triple_check_counter = counter] IN
             IF counter[2] >= 3 THEN end_game(s1, Opposite(now)) ELSE s1
        ELSE s

\* lines 668-671 and 683-686: the Atomic removal at `to` after the commit
atomic_after_commit(s, to, now, sniper, taking_move) ==
    IF Atomic(s.board[to]) \in s.white_mods /\ ~sniper /\ taking_move
    THEN IF now = White
         THEN [s EXCEPT !.taken_black_pieces = Append(@, s.board[to]),
                        !.board = board_remove(@, to)]
         ELSE [s EXCEPT !.taken_white_pieces = Append(@, s.board[to]),
                        !.board = board_remove(@, to)]
    ELSE s

\* lines 651-689: the commit and what follows it
commit(s, from, to, sniper, taking_move, verdict) ==
    LET made == make_move(s, from, to, verdict)
        successful == made.ok
        s1 == IF sniper THEN sniper_revert(made.s, from, to) ELSE made.s
    IN  IF s1.status = "running" /\ successful /\ contains_key(s1.board, to)
        THEN atomic_after_commit(
                 triple_check_step(s1, to, s1.active_color),
                 to, s1.active_color, sniper, taking_move)
        ELSE s1

\* lines 690-703: a captured piece is put back on the board
redrop(s, to, verdict) ==
    LET idx == s.selected_pos[1] + 1
        pile == IF s.selected_pos[2] = 9
                THEN s.taken_black_pieces ELSE s.taken_white_pieces
        as == IF s.selected_pos[2] = 9 THEN White ELSE Black
        next == Opposite(as)
    IN  IF s.selected_pos[2] \notin {9, 10} THEN s
        ELSE IF idx < 1 \/ idx > Len(pile) THEN panic(s)
        ELSE LET b == board_insert(s.board, to, type_as_colour(pile[idx], as))
                 s1 == [s EXCEPT !.board = b, !.active_color = next,
                                 !.mate = verdict /\ InCheck(b, next)]
             IN  IF s.selected_pos[2] = 9
                 THEN [s1 EXCEPT !.taken_black_pieces = RemoveAt(@, idx)]
                 ELSE [s1 EXCEPT !.taken_white_pieces = RemoveAt(@, idx)]

\* lines 543-708: a click on a highlighted square
move_click(s, to, verdict) ==
    LET from == Position(IntAsU8(s.selected_pos[1]), IntAsU8(s.selected_pos[2]))
        taken == detect_taking(s, from, to)
        s1 == taken.s
        s2 == IF s1.status # "running" THEN s1
              ELSE IF contains_key(s1.board, from)
                      /\ colour(s1.board[from]) = s1.active_color
              THEN LET pre == pre_commit(s1, from, to, verdict) IN
                   IF pre.s.status # "running" THEN pre.s
                   ELSE commit(pre.s, from, to, pre.sniper,
                               taken.taking_move, verdict)
              ELSE redrop(s1, to, verdict)
    IN  IF s2.status # "running" THEN s2
        ELSE [s2 EXCEPT !.selected_pos = <<0, 0>>, !.highlighted_pos = {}]

Centre == {Position(5, 4), Position(5, 5), Position(4, 4), Position(4, 5)}

\* a faulty test: a King on a centre square counts only while a side holds
\* King of the Hill
king_of_the_hill_if_held(s) ==
    LET w == \E k \in Centre \cap DOMAIN s.board : s.board[k] = Piece("King", White)
        b == \E k \in Centre \cap DOMAIN s.board : s.board[k] = Piece("King", Black)
    IN  IF KingOfTheHill \notin s.white_mods \cup s.black_mods THEN {s}
        ELSE IF w /\ b THEN {end_game(s, White), end_game(s, Black)}
        ELSE IF w THEN {end_game(s, White)}
        ELSE IF b THEN {end_game(s, Black)}
        ELSE {s}

\* lines 709-718: a King on a centre square ends the round; with a King of
\* either colour there, the map's iteration order decides which call is last
king_of_the_hill(s) ==
    LET w == \E k \in Centre \cap DOMAIN s.board : s.board[k] = Piece("King", White)
        b == \E k \in Centre \cap DOMAIN s.board : s.board[k] = Piece("King", Black)
    IN  IF w /\ b THEN {end_game(s, White), end_game(s, Black)}
        ELSE IF w THEN {end_game(s, White)}
        ELSE IF b THEN {end_game(s, Black)}
        ELSE {s}

\* lines 719-726: the clicked square becomes the selection
select_square(s, pos) ==
    [s EXCEPT !.selected_pos = pos,
              !.highlighted_pos =
                  IF contains_key(s.board, pos)
                  THEN possible_moves(s, pos) ELSE {}]

\* lines 729-762: a click below the board, on the captured piles
pile_click(s, x, y) ==
    LET pos_x == CeilDiv(x - (SCREEN_W \div 4 - GRID_CELL_SIZE), GRID_CELL_SIZE)
        pos_y == CeilDiv(y - GRID_CELL_SIZE * 9, GRID_CELL_SIZE)
        s1 == [s EXCEPT !.selected_pos = <<pos_x - 1, pos_y + 8>>]
        pile == IF s.active_color = Black
                THEN s.taken_white_pieces ELSE s.taken_black_pieces
        mods == IF s.active_color = Black THEN s.black_mods ELSE s.white_mods
        row == IF s.active_color = Black THEN 10 ELSE 9
        empty == {sq \in Squares : ~contains_key(s.board, sq)}
    IN  IF s.status # "running" THEN s
        ELSE IF ~(x >= SCREEN_W \div 4 - GRID_CELL_SIZE
                  /\ y >= GRID_CELL_SIZE * 9) THEN s
        ELSE IF ~(\/ pos_y = 1 /\ pos_x <= Len(s.taken_black_pieces)
                  \/ pos_y = 2 /\ pos_x <= Len(s.taken_white_pieces)) THEN s
        ELSE IF pos_y + 8 # row THEN s1
        ELSE IF pos_x < 1 THEN panic(s1)
        ELSE IF CrazyHouse(pile[pos_x]) \in mods
        THEN [s1 EXCEPT !.highlighted_pos = @ \cup empty]
        ELSE s1

\* lines 764-775: a click on the promotion selectors
promotion_click(s, x, y) ==
    LET pos_x == CeilDiv(x - (SCREEN_W * 3) \div 4, GRID_CELL_SIZE) IN
    IF s.status # "running" THEN s
    ELSE IF ~(/\ x >= (SCREEN_W * 3) \div 4
              /\ x <= (SCREEN_W * 3) \div 4 + GRID_CELL_SIZE * 4
              /\ y >= GRID_CELL_SIZE * 3
              /\ y < GRID_CELL_SIZE * 4) THEN s
    ELSE IF pos_x = 1 THEN set_promotion(s, "Queen")
    ELSE IF pos_x = 2 THEN set_promotion(s, "Rook")
    ELSE IF pos_x = 3 THEN set_promotion(s, "Bishop")
    ELSE IF pos_x = 4 THEN set_promotion(s, "Knight")
    ELSE panic(s)

\* lines 537-776: a click on the game screen; the states it can leave
game_screen_click(s, x, y) ==
    LET on_board == /\ 4 * x <= 3 * SCREEN_W
                    /\ 4 * x >= SCREEN_W
                    /\ 3 * y < 2 * SCREEN_H
        pos == <<CeilDiv(x - SCREEN_W \div 4, GRID_CELL_SIZE),
                 9 - CeilDiv(y, GRID_CELL_SIZE)>>
    IN  IF on_board /\ pos \in s.highlighted_pos
        THEN {move_click(s, pos, verdict) : verdict \in BOOLEAN}
        ELSE LET after == IF on_board
                          THEN {select_square(k, pos) : k \in king_of_the_hill(s)}
                          ELSE {s}
             IN  {promotion_click(pile_click(r, x, y), x, y) : r \in after}

\* EventHandler::mouse_button_up_event, for the left button
mouse_button_up_event(s, x, y, rolls) ==
    IF s.screen = "ModScreen" THEN {mod_screen_click(s, x, y)}
    ELSE IF s.screen = "ScoreScreen" THEN score_screen_click(s, rolls)
    ELSE game_screen_click(s, x, y)


----------------------------------------------------------------------------
(* The program as a state machine *)

\* the pixel on which square (file, rank) is clicked
SquarePixel(file, rank) ==
    <<SCREEN_W \div 4 + GRID_CELL_SIZE * file - 20,
      GRID_CELL_SIZE * (9 - rank) - 10>>

\* the squares e2, e4, f7, f6, d1, h5, g7 and g6 (1.e4 f6 2.Qh5+ g6 3.Qxg6+).
\* On the reward screen the clicks on ranks 5 to 7 fall in the first box,
\* those on ranks 2 and 4 in the second, and the click on d1 in none.
QueenClicks ==
    {SquarePixel(5, 2), SquarePixel(5, 4), SquarePixel(6, 7), SquarePixel(6, 6),
     SquarePixel(4, 1), SquarePixel(8, 5), SquarePixel(7, 7), SquarePixel(7, 6)}

\* the pixels clicked: those squares and a pixel left of the piles, which
\* falls in the third box of the reward screen
Clicks == QueenClicks \cup {<<100, 430>>}

\* the pairs of numbers the generator returns: an Atomic and an Extinction
\* roll for a pawn and for a queen, the second and the fourth beyond 100
Rolls == {<<10, 15>>, <<10, 150>>, <<195, 15>>, <<195, 150>>}

\* a left click on one of clicks is handled, the generator rolling from rolls
MouseButtonUp(clicks, rolls, cap) ==
    /\ status = "running"
    /\ (screen = "ScoreScreen" /\ cur_winner # NoColour) => seed < cap
    /\ \E c \in clicks :
          \E r \in mouse_button_up_event(self, c[1], c[2], rolls) :
             /\ Len(r.taken_black_pieces) + Len(r.taken_white_pieces)
                   <= MaxTaken
             /\ Becomes(r)

\* an idle tick
Update(cap) ==
    /\ status = "running"
    /\ seed < cap
    /\ Becomes(update_state(self))

Next == MouseButtonUp(Clicks, Rolls, MaxSeed) \/ Update(MaxSeed)

\* the program from its start, over one round and its reward
Spec == Init /\ [][Next]_vars

----------------------------------------------------------------------------
(* Two rounds won by the check Qh5 *)

\* an Atomic, an Extinction and a TripleCheck roll for a queen
QueenRolls == {<<95, 15>>, <<95, 50>>, <<95, 90>>}

NextTwoRounds ==
    MouseButtonUp(QueenClicks, QueenRolls, MaxSeed + 2) \/ Update(MaxSeed + 2)

SpecTwoRounds == Init /\ [][NextTwoRounds]_vars

----------------------------------------------------------------------------
(* A round won on the hill, and the round after it *)

\* the squares d1, d2, d3, d4, e8, e7, e6, e5 and d5 (1.d3 e5 2.Qd2 Ke7
\* 3.Qd1 Ke6 4.d4 Kd5 and a click on d1)
HillClicks ==
    {SquarePixel(4, 1), SquarePixel(4, 2), SquarePixel(4, 3), SquarePixel(4, 4),
     SquarePixel(5, 8), SquarePixel(5, 7), SquarePixel(5, 6), SquarePixel(5, 5),
     SquarePixel(4, 5)}

\* an Extinction roll for a pawn
HillRolls == {<<10, 50>>}

NextHill ==
    MouseButtonUp(HillClicks, HillRolls, MaxSeed - 1) \/ Update(MaxSeed - 1)

SpecHill == Init /\ [][NextHill]_vars

----------------------------------------------------------------------------
(* The same walk with King of the Hill as the reward *)

\* a King-of-the-Hill roll
KothRolls == {<<10, 5>>}

\* the squares of HillClicks but d5 (1.d3 e5 2.d4 Ke7 3.Qd2 Ke6 4.dxe5 Kxe5)
KothClicks == HillClicks \ {SquarePixel(4, 5)}

NextKoth == MouseButtonUp(KothClicks, KothRolls, MaxSeed - 1) \/ Update(MaxSeed - 1)

SpecKoth == Init /\ [][NextKoth]_vars

----------------------------------------------------------------------------
(* A round Black wins by mate, and the round after it *)

\* the squares f2, f4, g2, g4, e7, e5, d8 and h4 (1.f4 e5 2.g4 Qh4+, and in
\* the next round 1.f4 e5 2.g4 exf4)
FoolClicks ==
    {SquarePixel(6, 2), SquarePixel(6, 4), SquarePixel(7, 2), SquarePixel(7, 4),
     SquarePixel(5, 7), SquarePixel(5, 5), SquarePixel(4, 8), SquarePixel(8, 4)}

\* an Atomic roll for a pawn
FoolRolls == {<<10, 15>>}

NextFool == MouseButtonUp(FoolClicks, FoolRolls, MaxSeed) \/ Update(MaxSeed)

SpecFool == Init /\ [][NextFool]_vars

----------------------------------------------------------------------------
(* generate_mod on its own *)

\* the numbers tried for rng1 and rng2: every residue mod 100, the first
\* twenty of them twice, and 2^31 - 1
MaxRoll == 119

RollValues == 0 .. MaxRoll \cup {2147483647}

InitGen ==
    /\ Is(new)
    /\ call \in [col : Colours, rng1 : RollValues, rng2 : RollValues]
    /\ returned = <<>>

\* the call returns
Generate ==
    /\ returned = <<>>
    /\ returned' = generate_mod(call.col, call.rng1, call.rng2)
    /\ UNCHANGED <<board, active_color, mate, promotion, selected_pos,
                   highlighted_pos, taken_black_pieces, taken_white_pieces,
                   white_mods, black_mods, triple_check_counter, wins, screen,
                   cur_winner, random_mods, seed, status, call>>

NextGen == Generate

SpecGen == InitGen /\ [][NextGen]_vars

----------------------------------------------------------------------------
(* Rounds played with an Atomic modifier of the holder's own colour *)

\* The acknowledgement draws every reward with the winner's colour as col, so
\* a set filled by it holds Atomic only for the opponent's pieces and the
\* Atomic step, the one place that ends a round without a winner, never
\* fires.  Here the sets are drawn from the Mods type instead: each side may
\* hold Atomic for a piece of its own.
HeldByWhite == {{}, {Atomic(Piece("Knight", White))}}
HeldByBlack == {{}, {Atomic(Piece("Knight", Black))}}

InitHeld ==
    /\ \E wm \in HeldByWhite, bm \in HeldByBlack :
          Is([new EXCEPT !.white_mods = wm, !.black_mods = bm])
    /\ call = <<>>
    /\ returned = <<>>

\* the squares g1, f3, b8, c6, d4 and e2 (1.Nf3 Nc6 2.Ng1 Nd4 3.Nf3 Nxe2, the
\* capture next to the white king)
HeldClicks ==
    {SquarePixel(7, 1), SquarePixel(6, 3), SquarePixel(2, 8), SquarePixel(3, 6),
     SquarePixel(4, 4), SquarePixel(5, 2)}

NextHeld ==
    MouseButtonUp(HeldClicks, HillRolls, MaxSeed - 1) \/ Update(MaxSeed - 1)

SpecHeld == InitHeld /\ [][NextHeld]_vars

----------------------------------------------------------------------------
(* Rounds in which a side holds Sniper for a piece of its own colour *)

SniperByWhite == {{}, {Sniper(Piece("Pawn", White))}}
SniperByBlack ==
    {{}, {Sniper(Piece("Queen", Black))},
     {Sniper(Piece("Queen", Black)), Atomic(Piece("Queen", Black))}}

InitSniper ==
    /\ \E wm \in SniperByWhite, bm \in SniperByBlack :
          Is([new EXCEPT !.white_mods = wm, !.black_mods = bm])
    /\ call = <<>>
    /\ returned = <<>>

\* the squares e2, e4, d7, d5, e7, e6, d8 and f7 (1.e4 d5 2.exd5 e6 3.dxe6 Qe7
\* 4.exf7+ Qxf7)
SniperClicks ==
    {SquarePixel(5, 2), SquarePixel(5, 4), SquarePixel(4, 7), SquarePixel(4, 5),
     SquarePixel(5, 7), SquarePixel(5, 6), SquarePixel(4, 8), SquarePixel(6, 7)}

NextSniper ==
    MouseButtonUp(SniperClicks, HillRolls, MaxSeed - 1) \/ Update(MaxSeed - 1)

SpecSniper == InitSniper /\ [][NextSniper]_vars

----------------------------------------------------------------------------
(* Rounds in which White holds Atomic for its queen *)

BlastByWhite == {{}, {Atomic(Piece("Queen", White))}}

InitBlast ==
    /\ \E wm \in BlastByWhite : Is([new EXCEPT !.white_mods = wm])
    /\ call = <<>>
    /\ returned = <<>>

\* the squares of QueenClicks and h7 (1.e4 g6 2.Qh5 f6 3.Qxh7, a capture on
\* the board's edge)
BlastClicks == QueenClicks \cup {SquarePixel(8, 7)}

NextBlast ==
    MouseButtonUp(BlastClicks, HillRolls, MaxSeed - 1) \/ Update(MaxSeed - 1)

SpecBlast == InitBlast /\ [][NextBlast]_vars

----------------------------------------------------------------------------
(* Rounds in which White holds TripleCheck for its bishops *)

CheckByWhite == {{}, {TripleCheck(Piece("Bishop", White))}}

InitCheck ==
    /\ \E wm \in CheckByWhite : Is([new EXCEPT !.white_mods = wm])
    /\ call = <<>>
    /\ returned = <<>>

\* the squares e2, e4, d7, d5, f1, b5 and c8 (1.e4 d5 2.Bb5+ Bd7 3.Bf1 Bc8
\* 4.Bb5+ Bd7 5.Bxd7+)
CheckClicks ==
    {SquarePixel(5, 2), SquarePixel(5, 4), SquarePixel(4, 7), SquarePixel(4, 5),
     SquarePixel(6, 1), SquarePixel(2, 5), SquarePixel(3, 8)}

NextCheck ==
    MouseButtonUp(CheckClicks, HillRolls, MaxSeed - 1) \/ Update(MaxSeed - 1)

SpecCheck == InitCheck /\ [][NextCheck]_vars

----------------------------------------------------------------------------
(* A round lost by a side that holds what the generator can return *)

\* one pair of numbers in every band of the piece table and of the modifier
\* table: with them generate_mod returns each of its values for a colour
AllRolls ==
    {<<rng1, rng2>> : rng1 \in {10, 40, 60, 80, 95},
                      rng2 \in {5, 15, 40, 50, 70, 90}}

\* White's set after losing every round so far and taking a new candidate
\* each time: all the modifiers drawn for Black as the winner, or all of
\* them but King of the Hill
StarvedWhite ==
    {Generable(Black, AllRolls), Generable(Black, AllRolls) \ {KingOfTheHill}}

InitStarved ==
    /\ \E wm \in StarvedWhite : Is([new EXCEPT !.white_mods = wm])
    /\ call = <<>>
    /\ returned = <<>>

NextStarved == MouseButtonUp(FoolClicks, AllRolls, MaxSeed) \/ Update(MaxSeed)

SpecStarved == InitStarved /\ [][NextStarved]_vars

----------------------------------------------------------------------------
(* A capture, and clicks on the captured piles *)

\* the squares e2, e4, d7, d5 and d8 (1.e4 d5 2.exd5, then the black queen is
\* selected) and the first entry of the pile of captured black pieces
DropClicks ==
    {SquarePixel(5, 2), SquarePixel(5, 4), SquarePixel(4, 7), SquarePixel(4, 5),
     SquarePixel(4, 8), <<250, 430>>}

NextDrop == MouseButtonUp(DropClicks, HillRolls, MaxSeed - 1) \/ Update(MaxSeed - 1)

SpecDrop == Init /\ [][NextDrop]_vars

----------------------------------------------------------------------------
(* Properties of the lifecycle *)

\* the ModifierSet of a colour
mods_of(s, col) == IF col = White THEN s.white_mods ELSE s.black_mods

\* a round has ended with a winner and waits for the acknowledgement
RoundWon ==
    status = "running" /\ screen = "ScoreScreen" /\ cur_winner \in Colours

\* the box of the reward screen a click falls in, 0 for none
BoxHit(c) ==
    IF ~InBoxes(c[1]) THEN 0
    ELSE IF InBox1(c[2]) THEN 1
    ELSE IF InBox2(c[2]) THEN 2
    ELSE IF InBox3(c[2]) THEN 3
    ELSE 0

\* a step that starts a round
EntersPlaying == screen # "GameScreen" /\ screen' = "GameScreen"

\* C1: when a round has ended with a winner, every acknowledgement click
\* leads to the reward screen with exactly three candidates, the winner
\* kept, and whichever candidate is then selected goes to the loser's set
\* and to no other.
AckOffersThreeToLoser ==
    RoundWon =>
      \A c \in Clicks :
        \A r \in mouse_button_up_event(self, c[1], c[2], Rolls) :
          /\ r.status = "running"
          /\ r.screen = "ModScreen"
          /\ Len(r.random_mods) = 3
          /\ r.cur_winner = cur_winner
          /\ \A i \in 1 .. 3 :
                LET loser == Opposite(cur_winner)
                    taken == select_mod(r, i)
                IN  /\ mods_of(taken, loser)
                          = mods_of(self, loser) \cup {r.random_mods[i]}
                    /\ mods_of(taken, cur_winner) = mods_of(self, cur_winner)

\* three candidates are on offer after a round White won
AckOffersThreeReached ==
    /\ screen = "ModScreen"
    /\ cur_winner = White
    /\ Len(random_mods) = 3
    /\ status = "running"

\* C2: on the reward screen a click in box i puts exactly candidate i into
\* the loser's set, leaves the winner's set as it is, resets the board to
\* the initial position, empties the candidates and starts a round; a click
\* in no box changes nothing.
SelectionRewardsLoser ==
    (status = "running" /\ screen = "ModScreen") =>
      \A c \in Clicks :
        \A r \in mouse_button_up_event(self, c[1], c[2], Rolls) :
          LET i == BoxHit(c)
              loser == Opposite(cur_winner)
          IN  IF i = 0 THEN r = self
              ELSE /\ mods_of(r, loser)
                         = mods_of(self, loser) \cup {random_mods[i]}
                   /\ mods_of(r, cur_winner) = mods_of(self, cur_winner)
                   /\ r.board = InitialBoard
                   /\ r.active_color = White
                   /\ r.random_mods = <<>>
                   /\ r.screen = "GameScreen"
                   /\ r.status = "running"

\* Black, the loser, has taken a reward and the next round is set up
SelectionReached ==
    /\ screen = "GameScreen"
    /\ cur_winner = White
    /\ Cardinality(black_mods) = 1
    /\ white_mods = {}
    /\ board = InitialBoard
    /\ random_mods = <<>>

\* C3: when a round has ended without a winner, every acknowledgement click
\* starts a round on the initial position and leaves both ModifierSets, the
\* tally, the candidates and the seed as they were.
AckWithoutWinnerResets ==
    (status = "running" /\ screen = "ScoreScreen" /\ cur_winner = NoColour) =>
      \A c \in HeldClicks :
        \A r \in mouse_button_up_event(self, c[1], c[2], HillRolls) :
          /\ r.screen = "GameScreen"
          /\ r.board = InitialBoard
          /\ r.active_color = White
          /\ r.white_mods = white_mods
          /\ r.black_mods = black_mods
          /\ r.wins = wins
          /\ r.random_mods = <<>>
          /\ r.seed = seed
          /\ r.status = "running"

\* a round that ended without a winner (the white king was blown up) has
\* been acknowledged
AckWithoutWinnerReached ==
    /\ screen = "GameScreen"
    /\ cur_winner = NoColour
    /\ board = InitialBoard
    /\ Piece("King", White) \in {taken_white_pieces[i] :
                                    i \in 1 .. Len(taken_white_pieces)}
    /\ black_mods # {}

\* C4: no candidate the acknowledgement draws is already in the loser's set.
CandidatesNotHeld ==
    RoundWon =>
      \A r \in score_screen_click(self, QueenRolls) :
        \A i \in 1 .. Len(r.random_mods) :
          r.random_mods[i] \notin mods_of(self, Opposite(cur_winner))

\* candidates are on offer to a loser who already holds a modifier
CandidatesNotHeldReached ==
    /\ screen = "ModScreen"
    /\ Len(random_mods) = 3
    /\ mods_of(self, Opposite(cur_winner)) # {}

\* C5: the three candidates on offer are pairwise distinct.
CandidatesDistinct ==
    screen = "ModScreen" =>
      \A i, j \in 1 .. Len(random_mods) :
        i # j => random_mods[i] # random_mods[j]

\* C6: every candidate on offer is bound relative to the recipient, the
\* loser: Atomic, Sniper and TripleCheck to a piece of the recipient's
\* colour, CrazyHouse and Extinction to a piece of the other colour.
CandidatesBoundToRecipient ==
    screen = "ModScreen" =>
      \A i \in 1 .. Len(random_mods) :
        LET m == random_mods[i]
            recipient == Opposite(cur_winner)
        IN  /\ m[1] \in {"Atomic", "Sniper", "TripleCheck"}
                  => colour(m[2]) = recipient
            /\ m[1] \in {"CrazyHouse", "Extinction"}
                  => colour(m[2]) = Opposite(recipient)

----------------------------------------------------------------------------
(* Properties of the generator *)

\* the piece table of the specification, as half-open bands of dice mod 100
RefPieceKind(dice) ==
    LET r == dice % 100 IN
    CASE r \in 0 .. 33 -> "Pawn"
      [] r \in 34 .. 53 -> "Bishop"
      [] r \in 54 .. 73 -> "Knight"
      [] r \in 74 .. 89 -> "Rook"
      [] r \in 90 .. 99 -> "Queen"

\* the modifier table of the specification
RefMod(col, diceA, diceB) ==
    LET k == RefPieceKind(diceA)
        r == diceB % 100
    IN  CASE r \in 0 .. 9 -> KingOfTheHill
          [] r \in 10 .. 27 -> Atomic(Piece(k, col))
          [] r \in 28 .. 45 -> CrazyHouse(Piece(k, Opposite(col)))
          [] r \in 46 .. 63 -> Extinction(Piece(k, Opposite(col)))
          [] r \in 64 .. 81 -> Sniper(Piece(k, col))
          [] r \in 82 .. 99 -> TripleCheck(Piece(k, col))

\* C7: what generate_mod returns is the entry of the reference tables for
\* its arguments, and never carries a King.
GenerateMatchesTable ==
    returned # <<>> =>
      /\ returned = RefMod(call.col, call.rng1, call.rng2)
      /\ returned[2][1] # "King"

\* generate(White, 10, 15) has returned Atomic(Pawn, White)
GenerateMatchesTableReached ==
    /\ returned = Atomic(Piece("Pawn", White))
    /\ call.col = White /\ call.rng1 = 10 /\ call.rng2 = 15

----------------------------------------------------------------------------
(* Properties of a round *)

\* the square selected_pos names, as the move click reads it
SelectedSquare ==
    Position(IntAsU8(selected_pos[1]), IntAsU8(selected_pos[2]))

\* the highlighted squares on which a click reaches the Extinction step with
\* the mover holding Extinction for the piece standing there
ExtinctionTargets ==
    IF /\ status = "running" /\ screen = "GameScreen"
       /\ contains_key(board, SelectedSquare)
       /\ colour(board[SelectedSquare]) = active_color
    THEN {to \in highlighted_pos :
             /\ contains_key(board, to)
             /\ Extinction(board[to]) \in mods_of(self, active_color)}
    ELSE {}

\* C8: with the mover holding Extinction for the piece at `to`, the
\* Extinction step ends the round for the mover exactly when no equal piece
\* stands elsewhere on the board, and changes nothing when one does.
ExtinctionFiresOnLastPiece ==
    \A to \in ExtinctionTargets :
      \A verdict \in BOOLEAN :
        LET r == extinction_step(self, SelectedSquare, to, active_color,
                                 verdict)
            extinct == ~any_piece(board_remove(board, to), board[to])
        IN  IF extinct
            THEN r.screen = "ScoreScreen" /\ r.cur_winner = active_color
            ELSE r = self

PilesEmptyAtRoundStart ==
    [][EntersPlaying =>
          taken_white_pieces' = <<>> /\ taken_black_pieces' = <<>>]_vars

----------------------------------------------------------------------------
(* Properties of the modifier sets *)

\* a step that takes a reward
SelectsReward == screen = "ModScreen" /\ screen' = "GameScreen"

\* C11: no step removes a modifier from either set; a set changes only on a
\* reward selection; and every reward selection adds exactly one modifier
\* to the loser's set and none to the winner's.
ModifierSetsOnlyGrow ==
    [][/\ white_mods \subseteq white_mods'
       /\ black_mods \subseteq black_mods'
       /\ (white_mods' # white_mods \/ black_mods' # black_mods)
             => SelectsReward
       /\ SelectsReward =>
             LET loser == Opposite(cur_winner) IN
             /\ Cardinality(mods_of(self', loser))
                   = Cardinality(mods_of(self, loser)) + 1
             /\ mods_of(self', cur_winner) = mods_of(self, cur_winner)]_vars

\* Black holds two modifiers and a third round is under way: the sets have
\* survived two board resets
ModifierSetsGrown ==
    /\ Cardinality(black_mods) = 2
    /\ screen = "GameScreen"
    /\ board # InitialBoard

----------------------------------------------------------------------------
(* Properties of the move resolver *)

\* the active side has selected a piece of its own and the highlighted square
\* `to` is a destination the engine allows for it
LegalMove(to) ==
    /\ status = "running" /\ screen = "GameScreen"
    /\ to \in highlighted_pos
    /\ contains_key(board, SelectedSquare)
    /\ colour(board[SelectedSquare]) = active_color
    /\ to \in possible_moves(self, SelectedSquare)

\* a legal move onto an occupied square
TakingMove(to) == LegalMove(to) /\ contains_key(board, to)

Neighbourhood(to) ==
    {sq \in Squares : sq[1] - to[1] \in -1 .. 1 /\ sq[2] - to[2] \in -1 .. 1}

\* a taking move on which the Atomic removals of lines 582-596, 618-631 or
\* 668-686 are due: one of the two sets holds Atomic for the moving piece, and
\* the mover does not hold Sniper for it
AtomicTakingMove(to) ==
    /\ TakingMove(to)
    /\ Atomic(board[SelectedSquare]) \in white_mods \cup black_mods
    /\ Sniper(board[SelectedSquare]) \notin mods_of(self, active_color)

\* the board once the capture from the selected square onto `to` is made
Captured(to, verdict) == make_move(self, SelectedSquare, to, verdict).s.board

\* C13: Atomic never removes a pawn: every pawn standing in the 3x3 block
\* around `to` once the capture is made, the capturing pawn on `to` included,
\* is still there when the move is resolved.
AtomicSparesPawns ==
    \A to \in Squares, verdict \in BOOLEAN :
       AtomicTakingMove(to) =>
       LET r == move_click(self, to, verdict)
           made == Captured(to, verdict)
       IN  \A sq \in Neighbourhood(to) \cap DOMAIN made :
              kind_of(made[sq]) = "Pawn" =>
                 contains_key(r.board, sq) /\ r.board[sq] = made[sq]

\* C14: on an Atomic taking move without Sniper the mover's piece stands on
\* `to` when the move is resolved and has been added to no pile: the piles
\* gain the defending piece and the pieces blown off the other squares only.
AtomicKeepsMoverOnTarget ==
    \A to \in Squares, verdict \in BOOLEAN :
       AtomicTakingMove(to) =>
       LET r == move_click(self, to, verdict)
           made == Captured(to, verdict)
           gone == {sq \in DOMAIN made \ {to} : ~contains_key(r.board, sq)}
       IN  /\ contains_key(r.board, to)
           /\ r.board[to] = made[to]
           /\ Len(r.taken_black_pieces) + Len(r.taken_white_pieces)
                 = Len(taken_black_pieces) + Len(taken_white_pieces)
                   + 1 + Cardinality(gone)

\* a taking move on which the mover holds Atomic for the moving piece, so that
\* the loop of lines 583-596 or 619-631 runs
ExplodingMove(to) ==
    TakingMove(to) /\ Atomic(board[SelectedSquare]) \in mods_of(self, active_color)

\* the round is over in s, with this winner
EndedFor(s, winner) == s.screen = "ScoreScreen" /\ s.cur_winner = winner

holds(b, sq, p) == contains_key(b, sq) /\ b[sq] = p

\* the captured pile of the mover's opponent
opponents_pile(s, mover) ==
    IF mover = White THEN s.taken_black_pieces ELSE s.taken_white_pieces

\* C16: on an Atomic taking move every piece other than a pawn on the 8
\* squares around `to` leaves the board and is appended to the captured pile
\* of the mover's opponent, and no square outside the 3x3 block is touched by
\* the removals, also when `to` lies on the board's edge; the pieces are still
\* off the board and in the pile when the move is resolved.
ExplosionFootprint ==
    \A to \in Squares :
       ExplodingMove(to) =>
       LET from == SelectedSquare
           mover == active_color
           taken == detect_taking(self, from, to).s
           r == explode(taken, to, ExplosionOffsets, mover)
           before == opponents_pile(taken, mover)
           after == opponents_pile(r, mover)
           hit == {sq \in (Neighbourhood(to) \ {to}) \cap DOMAIN board :
                      kind_of(board[sq]) # "Pawn"}
       IN  /\ Len(after) >= Len(before)
           /\ SubSeq(after, 1, Len(before)) = before
           /\ \A sq \in hit :
                 /\ ~contains_key(r.board, sq)
                 /\ \E i \in Len(before) + 1 .. Len(after) : after[i] = board[sq]
           /\ \A sq \in Squares \ Neighbourhood(to) :
                 /\ contains_key(r.board, sq) <=> contains_key(board, sq)
                 /\ contains_key(board, sq) => r.board[sq] = board[sq]
           /\ \A verdict \in BOOLEAN :
                 LET done == move_click(self, to, verdict)
                     pile == opponents_pile(done, mover)
                 IN  \A sq \in hit :
                        /\ ~holds(done.board, sq, board[sq])
                        /\ \E i \in Len(before) + 1 .. Len(pile) :
                              pile[i] = board[sq]

\* White's queen has taken the pawn on h7 and the explosion has removed the
\* knight on g8 and the rook on h8, at the board's edge; the pawn on g6 and
\* the bishop on f8 stand
ExplosionAtEdge ==
    /\ status = "running"
    /\ Atomic(Piece("Queen", White)) \in white_mods
    /\ ~contains_key(board, Position(7, 8))
    /\ ~contains_key(board, Position(8, 8))
    /\ holds(board, Position(7, 6), Piece("Pawn", Black))
    /\ holds(board, Position(6, 8), Piece("Bishop", Black))
    /\ taken_black_pieces =
          <<Piece("Pawn", Black), Piece("Knight", Black), Piece("Rook", Black)>>

\* what the overlay keeps besides the engine's game: the board, the piles, the
\* counters and the two sets
overlay(s) ==
    <<s.board, s.active_color, s.taken_black_pieces, s.taken_white_pieces,
      s.triple_check_counter, s.white_mods, s.black_mods>>

\* the states a click on square `to` of the board can leave
square_click(s, to) ==
    game_screen_click(s, SquarePixel(to[1], to[2])[1], SquarePixel(to[1], to[2])[2])

\* C17: a click on a square that is not a legal destination of the piece on
\* the selected square changes nothing of the overlay: board, piles, counters
\* and sets stay as they are and no move is committed.
IllegalMoveIsNoOp ==
    \A to \in Squares :
       (status = "running" /\ screen = "GameScreen" /\ ~LegalMove(to)) =>
       \A r \in square_click(self, to) : overlay(r) = overlay(self)

----------------------------------------------------------------------------
(* Properties of the Triple-Check counters *)

\* the step is a click on a highlighted square whose make_move at line 651
\* succeeded
CommitsMove ==
    /\ status = "running" /\ screen = "GameScreen"
    /\ contains_key(board, SelectedSquare)
    /\ colour(board[SelectedSquare]) = active_color
    /\ \E to \in highlighted_pos, verdict \in BOOLEAN :
          LET from == SelectedSquare
              pre == pre_commit(detect_taking(self, from, to).s, from, to, verdict)
          IN  /\ make_move(pre.s, from, to, verdict).ok
              /\ self' = move_click(self, to, verdict)

\* C18: a Triple-Check counter changes only on a step that commits a move
\* while the game screen is up, and then no counter decreases and none grows
\* by more than 1; an idle tick, an acknowledgement, a reward selection and a
\* move whose commit failed leave both counters as they are.
CountersMoveOnCommit ==
    [][triple_check_counter' # triple_check_counter =>
          /\ CommitsMove
          /\ \A i \in 1 .. 2 :
                triple_check_counter'[i] \in
                   {triple_check_counter[i], triple_check_counter[i] + 1}]_vars

\* two checks have been counted in a round that is still played
TwoChecksCounted ==
    /\ status = "running" /\ screen = "GameScreen"
    /\ triple_check_counter[1] + triple_check_counter[2] = 2
    /\ get_game_state(self) = "Check"

\* the component of triple_check_counter that belongs to a colour
counter_of(s, col) ==
    IF col = White THEN s.triple_check_counter[1] ELSE s.triple_check_counter[2]

\* the step ends the round by the Triple-Check rule
TripleCheckWin ==
    /\ CommitsMove
    /\ triple_check_counter' # triple_check_counter
    /\ screen' = "ScoreScreen"

----------------------------------------------------------------------------
(* King of the Hill *)

\* C20: with King of the Hill held by a side, a move on the game screen (the
\* board changes and the turn passes) that leaves a King on d4, d5, e4 or e5
\* ends the round for that King's colour in the very step that resolves the
\* move.
HillEndsRoundOnMove ==
    [][(/\ screen = "GameScreen"
        /\ board' # board /\ active_color' # active_color
        /\ KingOfTheHill \in white_mods \cup black_mods) =>
          \A col \in Colours :
             (\E k \in Centre : holds(board', k, Piece("King", col))) =>
                screen' = "ScoreScreen" /\ cur_winner' = col]_vars

----------------------------------------------------------------------------
(* Properties of the idle tick and of the round's verdict *)

\* the step is an idle tick: update is the only handler that advances the seed
\* without drawing candidates (line 173; the acknowledgement of lines 506-534
\* advances it and pushes three candidates, or never returns)
IdleTick == seed' = seed + 1 /\ random_mods' = random_mods /\ status' = status

\* C21: an idle tick taken while the engine reports CheckMate and the game
\* screen is up ends the round for the colour opposite to the side to move;
\* any other idle tick leaves the screen and the winner as they are.
TickEndsRoundOnMate ==
    [][IdleTick =>
          IF get_game_state(self) = "CheckMate" /\ screen = "GameScreen"
          THEN screen' = "ScoreScreen" /\ cur_winner' = Opposite(active_color)
          ELSE screen' = screen /\ cur_winner' = cur_winner]_vars

\* an idle tick has found the side to move mated and has ended the round
MateFoundByTick ==
    /\ screen = "ScoreScreen"
    /\ get_game_state(self) = "CheckMate"
    /\ cur_winner = Opposite(active_color)
    /\ seed > 0

\* C22: while the score screen is up the recorded winner does not change:
\* neither an idle tick nor a click replaces the verdict with which the round
\* ended.
VerdictStands ==
    [][screen = "ScoreScreen" => cur_winner' = cur_winner]_vars

\* a round that ended without a winner (the Atomic verdict) has seen an idle
\* tick on the score screen
VerdictStoodThroughTick ==
    /\ status = "running"
    /\ screen = "ScoreScreen"
    /\ cur_winner = NoColour
    /\ seed > 0
    /\ ~any_piece(board, Piece("King", White))

\* C23: the tally counts the rounds won: once a round has been won and the
\* next one is being played, at least one of the two tallies is positive.
TallyCountsWins ==
    (screen = "GameScreen" /\ cur_winner \in Colours) =>
       wins[1] + wins[2] >= 1

\* C24: the match loop has no terminal state: the program never reaches a
\* state from which no click and no tick takes it further, so a round that
\* has ended is always followed by the next round on a fresh board.
NoTerminalState == status = "running"

\* C25: the reward draw is bounded: acknowledging a won round always leaves
\* three candidates on the reward screen, whatever the loser's set holds, also
\* when it holds every modifier the generator can return.
DrawIsBounded ==
    [][(RoundWon /\ screen' = "ModScreen") => Len(random_mods') = 3]_vars

----------------------------------------------------------------------------
(* Properties of the commit *)

----------------------------------------------------------------------------
(* The King-of-the-Hill test and the sets *)

\* the step is a click on a square of the board that is not highlighted, the
\* click on which lines 709-718 run
HillTestRuns ==
    /\ status = "running" /\ screen = "GameScreen"
    /\ selected_pos' \in Squares \ highlighted_pos
    /\ self' \in square_click(self, selected_pos')

\* C28: the King-of-the-Hill win depends on the centre alone: whenever the
\* test runs with one King on d4, d5, e4 or e5, the round ends for that
\* King's colour, whatever the two sets hold, and also when both are empty.
HillIgnoresSets ==
    [][\A col \in Colours :
          (/\ HillTestRuns
           /\ \E k \in Centre : holds(board, k, Piece("King", col))
           /\ ~\E k \in Centre : holds(board, k, Piece("King", Opposite(col)))) =>
          screen' = "ScoreScreen" /\ cur_winner' = col]_vars

\* a round ended for the Black King on the centre while neither side held a
\* modifier and the engine saw no mate
HillWonWithEmptySets ==
    /\ status = "running" /\ screen = "ScoreScreen" /\ cur_winner = Black
    /\ \E k \in Centre : holds(board, k, Piece("King", Black))
    /\ white_mods = {} /\ black_mods = {}
    /\ get_game_state(self) # "CheckMate"

----------------------------------------------------------------------------
(* The seed *)

\* the step is the acknowledgement of a won round whose loser holds no
\* modifier: no candidate can be rejected, so the draw has no reroll
AckWithoutReroll ==
    /\ RoundWon /\ screen' = "ModScreen"
    /\ mods_of(self, Opposite(cur_winner)) = {}

\* C29: the seed advances by one on every idle tick and by one for every
\* reroll of a rejected candidate, and at no other time: a step that changes
\* it is a tick, which leaves board and selection alone, or an
\* acknowledgement, and an acknowledgement without a reroll leaves it as it is.
SeedCountsTicksAndRerolls ==
    [][/\ (seed' # seed /\ ~RoundWon) =>
             /\ seed' = seed + 1
             /\ board' = board /\ selected_pos' = selected_pos
             /\ random_mods' = random_mods
       /\ AckWithoutReroll => seed' = seed]_vars

----------------------------------------------------------------------------
(* The lifecycle as one tagged state *)

\* C30: between two events the lifecycle fields fit one tagged state: on the
\* reward screen the candidate list holds exactly three modifiers and a
\* winner is recorded; on the game screen and on the score screen the list is
\* empty, so no candidate is present while a round is played.
LifecycleFieldsFit ==
    status = "running" =>
       IF screen = "ModScreen"
       THEN Len(random_mods) = 3 /\ cur_winner \in Colours
       ELSE random_mods = <<>>

\* the reward screen of a second round: three candidates are on offer after
\* an earlier list was taken from and cleared
SecondOfferReached ==
    /\ status = "running" /\ screen = "ModScreen"
    /\ Len(random_mods) = 3
    /\ white_mods \cup black_mods # {}

----------------------------------------------------------------------------
(* Moves to an empty square *)

\* C31: a move of a board piece to an empty square is never a taking move:
\* whatever the sets hold, both captured piles stay as they are and the board
\* afterwards is the one make_move leaves (no Sniper revert, no Atomic
\* removal), and the round does not end by Extinction or by an explosion: it
\* ends in that step only by a Triple-Check count.
EmptyDestinationTakesNothing ==
    \A to \in highlighted_pos, verdict \in BOOLEAN :
       (/\ status = "running" /\ screen = "GameScreen"
        /\ contains_key(board, SelectedSquare)
        /\ colour(board[SelectedSquare]) = active_color
        /\ ~contains_key(board, to)) =>
       LET r == move_click(self, to, verdict)
           made == make_move(self, SelectedSquare, to, verdict)
       IN  /\ r.status = "running"
           /\ r.taken_black_pieces = taken_black_pieces
           /\ r.taken_white_pieces = taken_white_pieces
           /\ r.board = made.s.board
           /\ r.screen = "ScoreScreen" =>
                 r.triple_check_counter # triple_check_counter

\* Black holds Sniper and Atomic for its queen, and the queen has gone from
\* d8 to the empty square d7 with nothing taken from White
QueenSteppedAside ==
    /\ status = "running" /\ screen = "GameScreen" /\ active_color = White
    /\ Sniper(Piece("Queen", Black)) \in black_mods
    /\ Atomic(Piece("Queen", Black)) \in black_mods
    /\ holds(board, Position(4, 7), Piece("Queen", Black))
    /\ ~contains_key(board, Position(4, 8))
    /\ taken_white_pieces = <<>>

----------------------------------------------------------------------------
(* Re-drops from the captured piles *)

\* the step takes an entry out of a captured pile: a re-drop (lines 690-703,
\* the only place where a pile shrinks)
ReDropStep ==
    /\ status = "running" /\ screen = "GameScreen"
    /\ \/ Len(taken_black_pieces') < Len(taken_black_pieces)
       \/ Len(taken_white_pieces') < Len(taken_white_pieces)

\* C32: a re-drop removes exactly the selected entry from its pile, the other
\* entries keeping their order and the other pile untouched, puts a piece of
\* that kind in the colour of the player to move on a square that was empty,
\* and passes the turn to the other player.
ReDropPlacesForMover ==
    [][ReDropStep =>
          LET idx == selected_pos[1] + 1
              pile == IF selected_pos[2] = 9
                      THEN taken_black_pieces ELSE taken_white_pieces
          IN  /\ selected_pos[2] \in {9, 10}
              /\ idx \in 1 .. Len(pile)
              /\ IF selected_pos[2] = 9
                 THEN /\ taken_black_pieces' = RemoveAt(taken_black_pieces, idx)
                      /\ taken_white_pieces' = taken_white_pieces
                 ELSE /\ taken_white_pieces' = RemoveAt(taken_white_pieces, idx)
                      /\ taken_black_pieces' = taken_black_pieces
              /\ \E to \in Squares :
                    /\ ~contains_key(board, to)
                    /\ board' = board_insert(board, to,
                                   Piece(kind_of(pile[idx]), active_color))
              /\ active_color' = Opposite(active_color)]_vars

\* C33: a captured piece comes back onto the board only when the player to
\* move holds CrazyHouse for exactly that piece: without such a modifier, and
\* so with both sets empty, no click takes an entry out of a pile.
ReDropNeedsCrazyHouse ==
    [][ReDropStep =>
          \E i \in 1 .. Len(taken_black_pieces \o taken_white_pieces) :
             CrazyHouse((taken_black_pieces \o taken_white_pieces)[i])
                \in mods_of(self, active_color)]_vars

----------------------------------------------------------------------------
(* Aborts *)

\* C34: no input aborts the process: every board lookup made while a click
\* is resolved finds a piece, and every pile index and candidate index is
\* within bounds.
NeverAborts == status # "panicked"

----------------------------------------------------------------------------
(* Selection and highlights *)

\* C35: while a round is played the highlighted squares belong to the
\* selection on the board as it is: if a square is highlighted, either the
\* selected square holds a piece and every highlighted square is a destination
\* the engine gives for it, or a pile entry is selected and every highlighted
\* square is empty.
HighlightsFitSelection ==
    (status = "running" /\ screen = "GameScreen" /\ highlighted_pos # {}) =>
       \/ /\ selected_pos \in Squares
          /\ contains_key(board, SelectedSquare)
          /\ highlighted_pos \subseteq possible_moves(self, SelectedSquare)
       \/ /\ selected_pos[2] \in {9, 10}
          /\ \A sq \in highlighted_pos : ~contains_key(board, sq)

=============================================================================
